---- MODULE Spec2Model ----
(***************************************************************************)
(* Model of the environment loader (package environment):                  *)
(*   fillSpecification -> loadEnv (per path) -> merge -> parseEnv          *)
(* with the helpers processValue, expandEnvVars, getValueFromEnvOrFile and *)
(* setValue.  Go strings are modelled as sequences of one-character        *)
(* strings, Go maps as functions whose domain is the set of present keys.  *)
(* A panic ends the call in pc = "panic".  Record fields are exported, a   *)
(* map field is a map[string]string and a slice's elements are not slices. *)
(***************************************************************************)
EXTENDS Integers, Sequences, FiniteSets, TLC

VARIABLES
    pc,         \* where the call is: open/scan/parse/done/failed/panic, or call/ret
    procEnv,    \* the process environment (read only)
    nPaths,     \* len(paths) of fillSpecification
    pathIdx,    \* number of paths already loaded and merged
    envVars,    \* fillSpecification's merged mapping
    loaded,     \* history: the mapping each successful loadEnv call returned
    err,        \* the error fillSpecification / parseEnv / setValue returns
    fileVars,   \* loadEnv's local envVars
    buffer,     \* loadEnv's continuation buffer
    multiline,  \* loadEnv's multiline flag
    nLines,     \* number of physical lines scanned in the current file
    run,        \* history: trimmed lines ending in a backslash read since the
                \* last line that did not end in one
    last,       \* history: what the last loop iteration of loadEnv did
    loadRet,    \* the (mapping, error) pair the last loadEnv call returned
    cfgType,    \* the target record's type: a sequence of field descriptors
    cfg0,       \* the target record as the caller passed it
    cfg,        \* the target record
    stack,      \* the active parseEnv calls: [path, i] frames
    calls,      \* history: the CustomParser.ParseEnv calls made
    res,        \* history: what the last loop iteration of parseEnv did
    arg,        \* argument of a directly called function
    ret         \* result of a directly called function

fillVars == <<nPaths, pathIdx, envVars, loaded>>
loadVars == <<fileVars, buffer, multiline, nLines, run, last, loadRet>>
parseVars == <<cfgType, cfg0, cfg, stack, calls, res>>
callVars == <<arg, ret>>
vars == <<pc, procEnv, err, fillVars, loadVars, parseVars, callVars>>

(***************************************************************************)
(* Bounds of the model.                                                    *)
(***************************************************************************)
MaxPaths == 2
MaxLines == 3
MaxValueLen == 3
MaxDigits == 3
MaxFields == 2

(***************************************************************************)
(* Characters and strings.                                                 *)
(***************************************************************************)
BS == "\\"
DQ == "\""
SQ == "'"
LF == "\n"
TAB == "\t"
CR == "\r"

Lower == {"a", "b", "c", "d", "e", "f", "g", "h", "i", "j", "k", "l", "m",
          "n", "o", "p", "q", "r", "s", "t", "u", "v", "w", "x", "y", "z"}
Upper == {"A", "B", "C", "D", "E", "F", "G", "H", "I", "J", "K", "L", "M",
          "N", "O", "P", "Q", "R", "S", "T", "U", "V", "W", "X", "Y", "Z"}
Digits == {"0", "1", "2", "3", "4", "5", "6", "7", "8", "9"}
Space == {" ", TAB, LF, CR}

SeqsUpTo(S, n) == UNION {[1..k -> S] : k \in 0..n}

EmptyMap == [k \in {} |-> <<>>]

HasPrefix(s, p) == Len(s) >= Len(p) /\ SubSeq(s, 1, Len(p)) = p

HasSuffix(s, p) == Len(s) >= Len(p) /\ SubSeq(s, Len(s) - Len(p) + 1, Len(s)) = p

TrimSuffix(s, p) == IF HasSuffix(s, p) THEN SubSeq(s, 1, Len(s) - Len(p)) ELSE s

RECURSIVE TrimLeft(_)
TrimLeft(s) ==
    IF s # <<>> /\ s[1] \in Space THEN TrimLeft(Tail(s)) ELSE s

RECURSIVE TrimRight(_)
TrimRight(s) ==
    IF s # <<>> /\ s[Len(s)] \in Space THEN TrimRight(SubSeq(s, 1, Len(s) - 1)) ELSE s

TrimSpace(s) == TrimRight(TrimLeft(s))

\* Position of the first occurrence of character c in s, 0 when there is none.
RECURSIVE IndexFrom(_, _, _)
IndexFrom(s, c, i) ==
    IF i > Len(s) THEN 0
    ELSE IF s[i] = c THEN i
    ELSE IndexFrom(s, c, i + 1)

\* strings.SplitN(line, "=", 2)
SplitN2(line) ==
    LET i == IndexFrom(line, "=", 1)
    IN  IF i = 0 THEN <<line>>
        ELSE <<SubSeq(line, 1, i - 1), SubSeq(line, i + 1, Len(line))>>

(***************************************************************************)
(* envVarRegex and validEnvVarRegex.                                       *)
(***************************************************************************)
NameStart(c) == c \in Lower \cup Upper \cup {"_"}

NameChar(c) == c \in Lower \cup Upper \cup Digits \cup {"_"}

\* ^[a-zA-Z_][a-zA-Z0-9_]*$
validEnvVarRegex(key) ==
    /\ key # <<>>
    /\ NameStart(key[1])
    /\ \A i \in 2..Len(key) : NameChar(key[i])

\* Number of consecutive name characters of s from position i on.
RECURSIVE NameRun(_, _)
NameRun(s, i) ==
    IF i <= Len(s) /\ NameChar(s[i]) THEN 1 + NameRun(s, i + 1) ELSE 0

\* Length of the match of \${([a-zA-Z_][a-zA-Z0-9_]*)} at the start of s, 0
\* when s does not start with a match.
envVarRegex(s) ==
    IF Len(s) >= 4 /\ s[1] = "$" /\ s[2] = "{" /\ NameStart(s[3])
    THEN LET n == NameRun(s, 3)
         IN  IF 3 + n <= Len(s) /\ s[3 + n] = "}" THEN 3 + n ELSE 0
    ELSE 0

(***************************************************************************)
(* processValue                                                            *)
(***************************************************************************)
Unescape(c) ==
    CASE c = "n" -> LF
      [] c = "t" -> TAB
      [] c = "r" -> CR
      [] OTHER -> BS

\* strings.NewReplacer(`\n`, "\n", `\t`, "\t", `\r`, "\r", `\\`, `\`).Replace
RECURSIVE Replacer(_)
Replacer(s) ==
    IF s = <<>> THEN <<>>
    ELSE IF Len(s) >= 2 /\ s[1] = BS /\ s[2] \in {"n", "t", "r", BS}
         THEN <<Unescape(s[2])>> \o Replacer(SubSeq(s, 3, Len(s)))
         ELSE <<s[1]>> \o Replacer(Tail(s))

\* The quote test of processValue: value[0] is a quote and the last byte is
\* the same quote.
QuoteWrapped(v) == v[1] \in {DQ, SQ} /\ v[Len(v)] = v[1]

\* value[1 : len(value)-1]: a slice expression whose low bound exceeds its
\* high bound is a run-time panic in Go.
SliceInner(v) ==
    IF 1 > Len(v) - 1 THEN [fault |-> TRUE, val |-> <<>>]
    ELSE [fault |-> FALSE, val |-> SubSeq(v, 2, Len(v) - 1)]

processValue(value) ==
    IF value = <<>> THEN [fault |-> FALSE, val |-> value]
    ELSE LET v == Replacer(value)
         IN  IF QuoteWrapped(v) THEN SliceInner(v)
             ELSE [fault |-> FALSE, val |-> v]

(***************************************************************************)
(* The process environment and expandEnvVars                               *)
(***************************************************************************)
\* os.LookupEnv
LookupEnv(penv, name) ==
    IF name \in DOMAIN penv THEN [val |-> penv[name], exists |-> TRUE]
    ELSE [val |-> <<>>, exists |-> FALSE]

\* os.Getenv
Getenv(penv, name) == LookupEnv(penv, name).val

\* The replacement function passed to ReplaceAllStringFunc.
ExpandMatch(match, known, penv) ==
    LET varName == SubSeq(match, 3, Len(match) - 1)
    IN  IF varName \in DOMAIN known THEN known[varName]
        ELSE IF LookupEnv(penv, varName).exists THEN LookupEnv(penv, varName).val
        ELSE match

\* envVarRegex.ReplaceAllStringFunc: leftmost non-overlapping matches, the
\* replacement text is not scanned again.
RECURSIVE expandEnvVars(_, _, _)
expandEnvVars(value, known, penv) ==
    IF value = <<>> THEN <<>>
    ELSE LET m == envVarRegex(value)
         IN  IF m > 0
             THEN ExpandMatch(SubSeq(value, 1, m), known, penv)
                  \o expandEnvVars(SubSeq(value, m + 1, Len(value)), known, penv)
             ELSE <<value[1]>> \o expandEnvVars(Tail(value), known, penv)

(***************************************************************************)
(* Errors.  kind is "nil" for no error; var names an environment variable, *)
(* field a record field, cause the underlying conversion error.            *)
(***************************************************************************)
NoErr == [kind |-> "nil", var |-> <<>>, field |-> "", cause |-> ""]

MkErr(kind, var, field, cause) ==
    [kind |-> kind, var |-> var, field |-> field, cause |-> cause]

(***************************************************************************)
(* loadEnv: one iteration of the scanner loop.  st is the loop state       *)
(* [envVars, buffer, multiline]; the result adds what the iteration did:   *)
(*   blank / comment  the line was skipped by the first test               *)
(*   continued        the line ended in a backslash and was buffered       *)
(*   noeq             the logical line has no "=" and was skipped          *)
(*   invalid          the key failed validEnvVarRegex: return nil, err     *)
(*   fault            processValue panicked                                *)
(*   set              envVars[key] = value                                 *)
(***************************************************************************)
MapSet(m, k, v) == [x \in DOMAIN m \cup {k} |-> IF x = k THEN v ELSE m[x]]

LoopResult(st, outcome, logical, key, pv) ==
    [envVars |-> st.envVars, buffer |-> st.buffer, multiline |-> st.multiline,
     outcome |-> outcome, logical |-> logical, key |-> key, pv |-> pv]

\* LoadEnvPair with a key that fails the pattern skipped like a line without
\* "=", instead of ending the load.
LoadEnvPairSkipInvalid(st, logical, penv) ==
    LET parts == SplitN2(logical)
    IN  IF Len(parts) # 2 THEN LoopResult(st, "noeq", logical, <<>>, <<>>)
        ELSE LET key == TrimSpace(parts[1])
                 pv == processValue(TrimSpace(parts[2]))
             IN  IF ~validEnvVarRegex(key)
                 THEN LoopResult(st, "noeq", logical, key, <<>>)
                 ELSE IF pv.fault
                 THEN LoopResult(st, "fault", logical, key, <<>>)
                 ELSE LoopResult(
                          [st EXCEPT !.envVars =
                              MapSet(st.envVars, key,
                                     expandEnvVars(pv.val, st.envVars, penv))],
                          "set", logical, key, pv.val)

\* Lines 135-147: split the logical line, check the key, process and expand
\* the value, store it.
LoadEnvPair(st, logical, penv) ==
    LET parts == SplitN2(logical)
    IN  IF Len(parts) # 2 THEN LoopResult(st, "noeq", logical, <<>>, <<>>)
        ELSE LET key == TrimSpace(parts[1])
                 pv == processValue(TrimSpace(parts[2]))
             IN  IF ~validEnvVarRegex(key)
                 THEN LoopResult(st, "invalid", logical, key, <<>>)
                 ELSE IF pv.fault
                 THEN LoopResult(st, "fault", logical, key, <<>>)
                 ELSE LoopResult(
                          [st EXCEPT !.envVars =
                              MapSet(st.envVars, key,
                                     expandEnvVars(pv.val, st.envVars, penv))],
                          "set", logical, key, pv.val)

\* Lines 117-133: trim, skip, buffer or join.
LoadEnvLine(st, raw, penv) ==
    LET line == TrimSpace(raw)
    IN  IF line = <<>> THEN LoopResult(st, "blank", <<>>, <<>>, <<>>)
        ELSE IF HasPrefix(line, <<"#">>)
        THEN LoopResult(st, "comment", <<>>, <<>>, <<>>)
        ELSE IF HasSuffix(line, <<BS>>)
        THEN LoopResult([st EXCEPT !.multiline = TRUE,
                                   !.buffer = st.buffer \o TrimSuffix(line, <<BS>>)],
                        "continued", <<>>, <<>>, <<>>)
        ELSE IF st.multiline
        THEN LoadEnvPair([st EXCEPT !.buffer = <<>>, !.multiline = FALSE],
                         st.buffer \o line, penv)
        ELSE LoadEnvPair(st, line, penv)

\* MergeVars with a key already present kept: the first path wins.
MergeVarsKeepFirst(into, from) ==
    [k \in DOMAIN into \cup DOMAIN from |->
        IF k \in DOMAIN into THEN into[k] ELSE from[k]]

\* fillSpecification lines 86-88: for k, v := range fileVars { envVars[k] = v }
MergeVars(into, from) ==
    [k \in DOMAIN into \cup DOMAIN from |->
        IF k \in DOMAIN from THEN from[k] ELSE into[k]]

NoLast ==
    [op |-> "none", line |-> <<>>, pending |-> FALSE, bufBefore |-> <<>>,
     runBefore |-> <<>>, hasPrev |-> FALSE, prev |-> <<>>, outcome |-> "none",
     logical |-> <<>>, key |-> <<>>, pv |-> <<>>, before |-> EmptyMap]

NoRet == [nil |-> TRUE, vars |-> EmptyMap, err |-> NoErr]

(***************************************************************************)
(* loadEnv, as fillSpecification calls it for paths[pathIdx + 1].          *)
(***************************************************************************)
\* os.Open succeeds: the locals of loadEnv are initialised (lines 111-114).
OpenFile ==
    /\ pc = "open"
    /\ pathIdx < nPaths
    /\ pc' = "scan"
    /\ fileVars' = EmptyMap
    /\ buffer' = <<>>
    /\ multiline' = FALSE
    /\ nLines' = 0
    /\ run' = <<>>
    /\ last' = NoLast
    /\ UNCHANGED <<procEnv, err, fillVars, loadRet, parseVars, callVars>>

\* os.Open fails (lines 99-104): loadEnv returns nil and the error, and
\* fillSpecification returns it (line 84).
OpenFail ==
    /\ pc = "open"
    /\ pathIdx < nPaths
    /\ \E kind \in {"not_exist", "open"} :
          /\ loadRet' = [nil |-> TRUE, vars |-> EmptyMap,
                         err |-> MkErr(kind, <<>>, "", "")]
          /\ err' = MkErr(kind, <<>>, "", "")
    /\ pc' = "failed"
    /\ UNCHANGED <<procEnv, fillVars, fileVars, buffer, multiline, nLines, run,
                   last, parseVars, callVars>>

\* scanner.Scan() returned true: one iteration of the loop over raw, the
\* text of the physical line.
ScanLine(raw) ==
    /\ pc = "scan"
    /\ nLines < MaxLines
    /\ LET line == TrimSpace(raw)
           r == LoadEnvLine([envVars |-> fileVars, buffer |-> buffer,
                             multiline |-> multiline], raw, procEnv)
       IN  /\ nLines' = nLines + 1
           /\ last' = [op |-> "scan", line |-> line, pending |-> multiline,
                       bufBefore |-> buffer, runBefore |-> run,
                       hasPrev |-> last.op = "scan", prev |-> last.line,
                       outcome |-> r.outcome, logical |-> r.logical,
                       key |-> r.key, pv |-> r.pv, before |-> fileVars]
           /\ run' = IF HasSuffix(line, <<BS>>) THEN Append(run, line) ELSE <<>>
           /\ fileVars' = r.envVars
           /\ buffer' = r.buffer
           /\ multiline' = r.multiline
           /\ CASE r.outcome = "invalid" ->
                     /\ pc' = "failed"
                     /\ loadRet' = [nil |-> TRUE, vars |-> EmptyMap,
                                    err |-> MkErr("invalid_name", r.key, "", "")]
                     /\ err' = MkErr("invalid_name", r.key, "", "")
                [] r.outcome = "fault" ->
                     /\ pc' = "panic"
                     /\ UNCHANGED <<loadRet, err>>
                [] OTHER ->
                     /\ pc' = "scan"
                     /\ UNCHANGED <<loadRet, err>>
    /\ UNCHANGED <<procEnv, fillVars, parseVars, callVars>>

\* scanner.Scan() returned false with no error: loadEnv returns envVars
\* (line 154), its locals go out of scope, and fillSpecification merges the
\* mapping returned (lines 86-88).
ScanEOF ==
    /\ pc = "scan"
    /\ loadRet' = [nil |-> FALSE, vars |-> fileVars, err |-> NoErr]
    /\ envVars' = MergeVars(envVars, fileVars)
    /\ loaded' = Append(loaded, fileVars)
    /\ pathIdx' = pathIdx + 1
    /\ pc' = "open"
    /\ fileVars' = EmptyMap
    /\ buffer' = <<>>
    /\ multiline' = FALSE
    /\ nLines' = 0
    /\ run' = <<>>
    /\ last' = NoLast
    /\ UNCHANGED <<procEnv, err, nPaths, parseVars, callVars>>

\* scanner.Scan() returned false with scanner.Err() set (lines 150-152).
ScanErr ==
    /\ pc = "scan"
    /\ loadRet' = [nil |-> TRUE, vars |-> EmptyMap, err |-> MkErr("scan", <<>>, "", "")]
    /\ err' = MkErr("scan", <<>>, "", "")
    /\ pc' = "failed"
    /\ UNCHANGED <<procEnv, fillVars, fileVars, buffer, multiline, nLines, run,
                   last, parseVars, callVars>>

(***************************************************************************)
(* setValue and the strconv / time / json conversions it calls.            *)
(* A conversion result is [cause, val]: cause is "" on success.            *)
(***************************************************************************)
DigitVal(c) ==
    CASE c = "0" -> 0 [] c = "1" -> 1 [] c = "2" -> 2 [] c = "3" -> 3
      [] c = "4" -> 4 [] c = "5" -> 5 [] c = "6" -> 6 [] c = "7" -> 7
      [] c = "8" -> 8 [] c = "9" -> 9

AllDigits(s) == s # <<>> /\ \A i \in 1..Len(s) : s[i] \in Digits

\* The number a digit string denotes.
RECURSIVE Decimal(_)
Decimal(s) ==
    IF s = <<>> THEN 0
    ELSE 10 * Decimal(SubSeq(s, 1, Len(s) - 1)) + DigitVal(s[Len(s)])

RECURSIVE StripZeros(_)
StripZeros(s) ==
    IF Len(s) > 1 /\ s[1] = "0" THEN StripZeros(Tail(s)) ELSE s

\* a <= b for digit strings of equal length.
RECURSIVE DigitsLE(_, _)
DigitsLE(a, b) ==
    IF a = <<>> THEN TRUE
    ELSE IF DigitVal(a[1]) < DigitVal(b[1]) THEN TRUE
    ELSE IF DigitVal(a[1]) > DigitVal(b[1]) THEN FALSE
    ELSE DigitsLE(Tail(a), Tail(b))

\* 2^63 - 1 and 2^63, the bounds strconv.ParseInt(s, 10, 64) checks.
Int64Max == <<"9","2","2","3","3","7","2","0","3","6","8","5","4","7","7","5","8","0","7">>
Int64MinAbs == <<"9","2","2","3","3","7","2","0","3","6","8","5","4","7","7","5","8","0","8">>

FitsInt64(digits, neg) ==
    LET d == StripZeros(digits)
        lim == IF neg THEN Int64MinAbs ELSE Int64Max
    IN  \/ Len(d) < Len(lim)
        \/ Len(d) = Len(lim) /\ DigitsLE(d, lim)

\* strconv.ParseInt(value, 10, 64)
ParseInt64(value) ==
    LET signed == value # <<>> /\ value[1] \in {"+", "-"}
        neg == value # <<>> /\ value[1] = "-"
        digits == IF signed THEN Tail(value) ELSE value
    IN  IF ~AllDigits(digits) THEN [cause |-> "syntax", val |-> 0]
        ELSE IF ~FitsInt64(digits, neg) THEN [cause |-> "range", val |-> 0]
        ELSE [cause |-> "", val |-> IF neg THEN 0 - Decimal(digits) ELSE Decimal(digits)]

IntKinds == {"int", "int8", "int16", "int32", "int64"}

\* Bits of the integer kinds (int is 64 bits wide on the 64-bit targets).
Width(kind) ==
    CASE kind = "int8" -> 8
      [] kind = "int16" -> 16
      [] kind = "int32" -> 32
      [] OTHER -> 64

\* reflect.Value.SetInt: the int64 is converted to the field's kind, which
\* keeps the low Width(kind) bits.  Values of the model are below 2^31, so
\* the conversion to 32 and 64 bits leaves them as they are.
SetInt(kind, x) ==
    LET w == Width(kind)
    IN  IF w >= 32 THEN x
        ELSE ((x + 2^(w - 1)) % 2^w) - 2^(w - 1)

\* strconv.ParseBool
ParseBool(value) ==
    IF value \in {<<"1">>, <<"t">>, <<"T">>, <<"t","r","u","e">>,
                  <<"T","R","U","E">>, <<"T","r","u","e">>}
    THEN [cause |-> "", val |-> TRUE]
    ELSE IF value \in {<<"0">>, <<"f">>, <<"F">>, <<"f","a","l","s","e">>,
                       <<"F","A","L","S","E">>, <<"F","a","l","s","e">>}
    THEN [cause |-> "", val |-> FALSE]
    ELSE [cause |-> "bool", val |-> FALSE]

\* Number of leading digits of s.
RECURSIVE DigitRun(_)
DigitRun(s) ==
    IF s # <<>> /\ s[1] \in Digits THEN 1 + DigitRun(Tail(s)) ELSE 0

UnitSeconds(c) ==
    CASE c = "h" -> 3600 [] c = "m" -> 60 [] OTHER -> 1

\* The groups <digits><unit> of a duration string, for the units h, m, s
\* (a unit must be followed by a digit or the end).  ok is FALSE on a
\* missing number or unit; sec is the sum in seconds.
RECURSIVE DurationGroups(_)
DurationGroups(s) ==
    IF s = <<>> THEN [ok |-> TRUE, sec |-> 0]
    ELSE LET n == DigitRun(s)
         IN  IF n = 0 \/ n = Len(s) \/ s[n + 1] \notin {"h", "m", "s"}
                \/ (n + 2 <= Len(s) /\ s[n + 2] \notin Digits)
             THEN [ok |-> FALSE, sec |-> 0]
             ELSE LET rest == DurationGroups(SubSeq(s, n + 2, Len(s)))
                  IN  [ok |-> rest.ok,
                       sec |-> Decimal(SubSeq(s, 1, n)) * UnitSeconds(s[n + 1]) + rest.sec]

\* time.ParseDuration over the strings of signs, digits and the units h, m
\* and s.  The duration is held in seconds: the int64 the field stores is
\* sec * 10^9 nanoseconds.
ParseDuration(value) ==
    LET signed == value # <<>> /\ value[1] \in {"+", "-"}
        neg == value # <<>> /\ value[1] = "-"
        body == IF signed THEN Tail(value) ELSE value
        g == DurationGroups(body)
    IN  IF body = <<"0">> THEN [cause |-> "", val |-> [sec |-> 0]]
        ELSE IF body = <<>> \/ ~g.ok THEN [cause |-> "duration", val |-> [sec |-> 0]]
        ELSE [cause |-> "", val |-> [sec |-> IF neg THEN 0 - g.sec ELSE g.sec]]

\* A JSON string without escapes at the start of s: [ok, str, rest].
JsonString(s) ==
    LET close == IF s # <<>> /\ s[1] = DQ THEN IndexFrom(s, DQ, 2) ELSE 0
    IN  IF close = 0 THEN [ok |-> FALSE, str |-> <<>>, rest |-> <<>>]
        ELSE [ok |-> TRUE, str |-> SubSeq(s, 2, close - 1),
              rest |-> SubSeq(s, close + 1, Len(s))]

\* The members "key":"value",... of a JSON object up to its closing brace.
RECURSIVE JsonMembers(_, _)
JsonMembers(s, m) ==
    LET k == JsonString(s)
        v == IF k.ok /\ k.rest # <<>> /\ k.rest[1] = ":"
             THEN JsonString(Tail(k.rest))
             ELSE [ok |-> FALSE, str |-> <<>>, rest |-> <<>>]
    IN  IF ~v.ok \/ v.rest = <<>> THEN [ok |-> FALSE, map |-> EmptyMap]
        ELSE IF v.rest = <<"}">> THEN [ok |-> TRUE, map |-> MapSet(m, k.str, v.str)]
        ELSE IF v.rest[1] = "," THEN JsonMembers(Tail(v.rest), MapSet(m, k.str, v.str))
        ELSE [ok |-> FALSE, map |-> EmptyMap]

\* json.Unmarshal([]byte(value), &m) with m a map[string]string, over texts
\* without white space and escapes.
JsonUnmarshal(value) ==
    IF value = <<"n","u","l","l">> \/ value = <<"{", "}">>
    THEN [cause |-> "", val |-> EmptyMap]
    ELSE IF value # <<>> /\ value[1] = "{"
    THEN LET r == JsonMembers(Tail(value), EmptyMap)
         IN  IF r.ok THEN [cause |-> "", val |-> r.map]
             ELSE [cause |-> "json", val |-> EmptyMap]
    ELSE [cause |-> "json", val |-> EmptyMap]

\* strings.Split(value, ",")
RECURSIVE Split(_)
Split(value) ==
    LET i == IndexFrom(value, ",", 1)
    IN  IF i = 0 THEN <<value>>
        ELSE <<SubSeq(value, 1, i - 1)>> \o Split(SubSeq(value, i + 1, Len(value)))

\* The integer branch of setValue (lines 259-263).
SetValueInt(kind, value) ==
    LET r == ParseInt64(value)
    IN  IF r.cause # "" THEN r
        ELSE [cause |-> "", val |-> SetInt(kind, r.val)]

\* setValue for the kinds that are not slices.
SetScalar(kind, value) ==
    CASE kind = "string" -> [cause |-> "", val |-> value]
      [] kind = "duration" -> ParseDuration(value)
      [] kind \in IntKinds -> SetValueInt(kind, value)
      [] kind = "bool" -> ParseBool(value)
      [] kind = "map" -> JsonUnmarshal(value)
      [] OTHER -> [cause |-> "unsupported", val |-> 0]

\* setValue: a slice converts every element of strings.Split(value, ","),
\* trimmed, by the element kind, and fails on the first that fails.
setValue(kind, elem, value) ==
    IF kind = "slice"
    THEN LET elements == Split(value)
             conv == [i \in 1..Len(elements) |-> SetScalar(elem, TrimSpace(elements[i]))]
             bad == {i \in 1..Len(elements) : conv[i].cause # ""}
         IN  IF bad # {}
             THEN [cause |-> conv[CHOOSE i \in bad : \A j \in bad : i <= j].cause,
                   val |-> <<>>]
             ELSE [cause |-> "", val |-> [i \in 1..Len(elements) |-> conv[i].val]]
    ELSE SetScalar(kind, value)

(***************************************************************************)
(* Record types and values.  A record type is a sequence of field          *)
(* descriptors, in declaration order:                                      *)
(*   name    the field's name                                              *)
(*   kind    string, int, int8, int16, int32, int64, duration, bool,       *)
(*           slice, map, struct, or another kind (float64)                 *)
(*   elem    the element kind of a slice                                   *)
(*   env, def, req   the tags env, default and required == "true"          *)
(*   sub     the fields of a struct                                        *)
(*   custom  whether a pointer to the struct implements CustomParser       *)
(* A record value is the sequence of its fields' values.                   *)
(***************************************************************************)
Field(name, kind, env, def, req) ==
    [name |-> name, kind |-> kind, elem |-> "", env |-> env, def |-> def,
     req |-> req, sub |-> <<>>, custom |-> FALSE]

SliceField(name, elem, env, def, req) ==
    [name |-> name, kind |-> "slice", elem |-> elem, env |-> env, def |-> def,
     req |-> req, sub |-> <<>>, custom |-> FALSE]

StructField(name, env, def, req, sub, custom) ==
    [name |-> name, kind |-> "struct", elem |-> "", env |-> env, def |-> def,
     req |-> req, sub |-> sub, custom |-> custom]

\* The zero value of a scalar kind.
ZeroScalar(kind) ==
    CASE kind = "string" -> <<>>
      [] kind = "duration" -> [sec |-> 0]
      [] kind = "bool" -> FALSE
      [] kind = "slice" -> <<>>
      [] kind = "map" -> EmptyMap
      [] OTHER -> 0

\* A value a caller may have stored in a field before the call.
PresetScalar(kind) ==
    CASE kind = "string" -> <<"o", "l", "d">>
      [] kind = "duration" -> [sec |-> 9]
      [] kind = "bool" -> TRUE
      [] kind = "slice" -> <<>>
      [] kind = "map" -> EmptyMap
      [] OTHER -> 9

RECURSIVE ZeroRecord(_)
ZeroRecord(type) ==
    [i \in 1..Len(type) |->
        IF type[i].kind = "struct" THEN ZeroRecord(type[i].sub)
        ELSE ZeroScalar(type[i].kind)]

RECURSIVE PresetRecord(_)
PresetRecord(type) ==
    [i \in 1..Len(type) |->
        IF type[i].kind = "struct" THEN PresetRecord(type[i].sub)
        ELSE PresetScalar(type[i].kind)]

\* The fields of the record at path (a sequence of field indices).
RECURSIVE TypeAt(_, _)
TypeAt(type, path) ==
    IF path = <<>> THEN type ELSE TypeAt(type[path[1]].sub, Tail(path))

RECURSIVE GetAt(_, _)
GetAt(val, path) ==
    IF path = <<>> THEN val ELSE GetAt(val[path[1]], Tail(path))

RECURSIVE SetAt(_, _, _)
SetAt(val, path, v) ==
    IF path = <<>> THEN v
    ELSE [val EXCEPT ![path[1]] = SetAt(val[path[1]], Tail(path), v)]

(***************************************************************************)
(* getValueFromEnvOrFile                                                   *)
(***************************************************************************)
\* getValueFromEnvOrFile with the process environment asked before the
\* mapping.
getValueProcessFirst(fd, known, penv) ==
    IF fd.env = <<>> THEN [val |-> <<>>, err |-> NoErr]
    ELSE IF Getenv(penv, fd.env) # <<>>
    THEN [val |-> Getenv(penv, fd.env), err |-> NoErr]
    ELSE IF fd.env \in DOMAIN known THEN [val |-> known[fd.env], err |-> NoErr]
    ELSE IF fd.req
    THEN [val |-> <<>>, err |-> MkErr("required_missing", fd.env, "", "")]
    ELSE [val |-> fd.def, err |-> NoErr]

getValueFromEnvOrFile(fd, known, penv) ==
    IF fd.env = <<>> THEN [val |-> <<>>, err |-> NoErr]
    ELSE IF fd.env \in DOMAIN known THEN [val |-> known[fd.env], err |-> NoErr]
    ELSE IF Getenv(penv, fd.env) # <<>>
    THEN [val |-> Getenv(penv, fd.env), err |-> NoErr]
    ELSE IF fd.req
    THEN [val |-> <<>>, err |-> MkErr("required_missing", fd.env, "", "")]
    ELSE [val |-> fd.def, err |-> NoErr]

(***************************************************************************)
(* parseEnv.  stack holds one frame [path, i] per active call: the record  *)
(* being populated and the index of the field the loop is at.              *)
(***************************************************************************)
\* ParseScalar with the field reset to its zero value when the conversion
\* fails.
ParseScalarClobber(fd, cur, known, penv) ==
    LET r == getValueFromEnvOrFile(fd, known, penv)
        sv == setValue(fd.kind, fd.elem, r.val)
    IN  IF r.err # NoErr THEN [val |-> cur, err |-> r.err, resolved |-> r.val]
        ELSE IF r.val = <<>> THEN [val |-> cur, err |-> NoErr, resolved |-> r.val]
        ELSE IF sv.cause # ""
        THEN [val |-> ZeroScalar(fd.kind),
              err |-> MkErr("set_field", <<>>, fd.name, sv.cause),
              resolved |-> r.val]
        ELSE [val |-> sv.val, err |-> NoErr, resolved |-> r.val]

\* Lines 213-224 for a field that is not a struct: cur is the field's value,
\* the result its value after the iteration and the error returned, if any.
ParseScalar(fd, cur, known, penv) ==
    LET r == getValueFromEnvOrFile(fd, known, penv)
        sv == setValue(fd.kind, fd.elem, r.val)
    IN  IF r.err # NoErr THEN [val |-> cur, err |-> r.err, resolved |-> r.val]
        ELSE IF r.val = <<>> THEN [val |-> cur, err |-> NoErr, resolved |-> r.val]
        ELSE IF sv.cause # ""
        THEN [val |-> cur, err |-> MkErr("set_field", <<>>, fd.name, sv.cause),
              resolved |-> r.val]
        ELSE [val |-> sv.val, err |-> NoErr, resolved |-> r.val]

\* Lines 201-209, after the recursive call returned nil: the value handed to
\* customParser.ParseEnv, and whether the call is made.
CustomCall(fd, known, penv) ==
    LET r == getValueFromEnvOrFile(fd, known, penv)
    IN  [called |-> fd.custom /\ r.err = NoErr,
         val |-> r.val,
         err |-> IF fd.custom THEN r.err ELSE NoErr]

Top == stack[Len(stack)]

TopFields == TypeAt(cfgType, Top.path)

NoRes ==
    [op |-> "none", path |-> <<>>, env |-> <<>>, req |-> FALSE, def |-> <<>>,
     kind |-> "", val |-> <<>>, err |-> NoErr]

MkRes(op, path, fd, val, e) ==
    [op |-> op, path |-> path, env |-> fd.env, req |-> fd.req, def |-> fd.def,
     kind |-> fd.kind, val |-> val, err |-> e]

Advance(stk) == [stk EXCEPT ![Len(stk)].i = @ + 1]

\* fillSpecification line 91: every path is loaded, parseEnv is called.
CallParseEnv ==
    /\ pc = "open"
    /\ pathIdx = nPaths
    /\ pc' = "parse"
    /\ stack' = <<[path |-> <<>>, i |-> 1]>>
    /\ UNCHANGED <<procEnv, err, fillVars, loadVars, cfgType, cfg0, cfg, calls,
                   res, callVars>>

\* One iteration of the loop at a field that is not a struct.
ParseScalarField ==
    /\ pc = "parse"
    /\ Top.i <= Len(TopFields)
    /\ TopFields[Top.i].kind # "struct"
    /\ LET fd == TopFields[Top.i]
           at == Append(Top.path, Top.i)
           r == ParseScalar(fd, GetAt(cfg, at), envVars, procEnv)
       IN  /\ cfg' = SetAt(cfg, at, r.val)
           /\ res' = MkRes("scalar", at, fd, r.resolved, r.err)
           /\ IF r.err # NoErr
              THEN /\ pc' = "failed"
                   /\ err' = r.err
                   /\ UNCHANGED stack
              ELSE /\ stack' = Advance(stack)
                   /\ UNCHANGED <<pc, err>>
    /\ UNCHANGED <<procEnv, fillVars, loadVars, cfgType, cfg0, calls, callVars>>

\* The loop is at a struct field: the recursive call of line 198.
ParseStructField ==
    /\ pc = "parse"
    /\ Top.i <= Len(TopFields)
    /\ TopFields[Top.i].kind = "struct"
    /\ stack' = Append(stack, [path |-> Append(Top.path, Top.i), i |-> 1])
    /\ res' = MkRes("enter", Append(Top.path, Top.i), TopFields[Top.i], <<>>, NoErr)
    /\ UNCHANGED <<pc, procEnv, err, fillVars, loadVars, cfgType, cfg0, cfg,
                   calls, callVars>>

\* A recursive call returns nil (line 226) and the caller goes on with
\* lines 201-210: the custom parser, then the next field.  Whether the
\* parser accepts the value is up to the caller's type.
ParseStructReturn ==
    /\ pc = "parse"
    /\ Len(stack) >= 2
    /\ Top.i > Len(TopFields)
    /\ LET caller == SubSeq(stack, 1, Len(stack) - 1)
           parent == caller[Len(caller)]
           fd == TypeAt(cfgType, parent.path)[parent.i]
           c == CustomCall(fd, envVars, procEnv)
       IN  \E accepted \in BOOLEAN :
              LET e == IF c.err # NoErr THEN c.err
                       ELSE IF c.called /\ ~accepted
                       THEN MkErr("custom", <<>>, fd.name, "")
                       ELSE NoErr
              IN  /\ calls' = IF c.called
                              THEN Append(calls, [path |-> Top.path, val |-> c.val,
                                                  fieldsDone |-> Top.i - 1])
                              ELSE calls
                  /\ res' = MkRes("return", Top.path, fd, c.val, e)
                  /\ IF e # NoErr
                     THEN /\ pc' = "failed"
                          /\ err' = e
                          /\ stack' = caller
                     ELSE /\ stack' = Advance(caller)
                          /\ UNCHANGED <<pc, err>>
    /\ UNCHANGED <<procEnv, fillVars, loadVars, cfgType, cfg0, cfg, callVars>>

\* The outermost call returns nil, and so does fillSpecification (line 94).
ParseEnvReturn ==
    /\ pc = "parse"
    /\ Len(stack) = 1
    /\ Top.i > Len(TopFields)
    /\ pc' = "done"
    /\ stack' = <<>>
    /\ err' = NoErr
    /\ UNCHANGED <<procEnv, fillVars, loadVars, cfgType, cfg0, cfg, calls, res,
                   callVars>>

(***************************************************************************)
(* Direct calls of processValue and setValue, as the package's tests make  *)
(* them.                                                                   *)
(***************************************************************************)
ProcessValueCall ==
    /\ pc = "call"
    /\ ret' = processValue(arg)
    /\ pc' = IF processValue(arg).fault THEN "panic" ELSE "ret"
    /\ UNCHANGED <<procEnv, err, fillVars, loadVars, parseVars, arg>>

\* arg is [kind, elem, cur, value]: the field's kind and value, and the text.
SetValueCall ==
    /\ pc = "call"
    /\ LET r == setValue(arg.kind, arg.elem, arg.value)
       IN  /\ ret' = [field |-> IF r.cause = "" THEN r.val ELSE arg.cur]
           /\ err' = IF r.cause = "" THEN NoErr
                     ELSE MkErr("set_value", <<>>, "", r.cause)
    /\ pc' = "ret"
    /\ UNCHANGED <<procEnv, fillVars, loadVars, parseVars, arg>>

(***************************************************************************)
(* Inputs.                                                                 *)
(***************************************************************************)
kA == <<"A">>
kB == <<"B">>
kP == <<"P">>
kQ == <<"Q">>

\* Physical lines of the files fillSpecification loads.
LoadLines ==
    { <<"A", "=", "1">>,
      <<"A", "=", "2">>,
      <<"B", "=", "$", "{", "A", "}", "$", "{", "P", "}">>,
      <<"B", "=", SQ>>,
      <<"1", "=", "3">> }

\* Physical lines of the file a single loadEnv call reads.
ScanLines ==
    { <<"A", "=", "1", BS>>,
      <<"B", "=", "2">>,
      <<"x", BS>>,
      <<>>,
      <<" ", " ">>,
      <<"#", "c">>,
      <<" ", "A", " ", "=", " ", "3", " ">>,
      <<"n", "o", "e", "q">>,
      <<"=", "v">>,
      <<"B", "=", SQ, "q", SQ>>,
      <<"B", "=", SQ>> }

MapOf(k, v) == [x \in {k} |-> v]

LoadEnvs == { EmptyMap, MapOf(kP, <<"7">>), MapOf(kP, <<>>) }

\* The record type fillSpecification populates.
Host == Field("Host", "string", kA, <<>>, FALSE)

ConfigType ==
    << Field("Name", "string", kA, <<>>, FALSE),
       Field("Port", "int8", kB, <<"5">>, FALSE),
       StructField("Inner", <<>>, <<>>, FALSE, <<Host>>, FALSE) >>

\* Fields of the record types parseEnv is called on.
FieldDescs ==
    { Field("Name", "string", kA, <<>>, FALSE),
      Field("Port", "int8", kB, <<"5">>, FALSE),
      Field("Must", "string", kQ, <<>>, TRUE),
      Field("Opt", "string", kQ, <<"d">>, FALSE),
      Field("Rate", "float64", kA, <<>>, FALSE),
      Field("Debug", "bool", kB, <<>>, FALSE),
      StructField("Inner", <<>>, <<>>, FALSE,
                  <<Host, Field("Key", "string", kQ, <<>>, TRUE)>>, FALSE),
      StructField("Custom", kP, <<>>, FALSE, <<Host>>, TRUE),
      StructField("Auth", kP, <<>>, TRUE, <<Host>>, TRUE) }

\* Record types: up to MaxFields fields with different names.
RecordTypes ==
    {t \in SeqsUpTo(FieldDescs, MaxFields) :
        \A i, j \in 1..Len(t) : i # j => t[i].name # t[j].name}

ParseMaps ==
    { EmptyMap,
      MapOf(kA, <<"x">>),
      [x \in {kA, kB} |-> IF x = kA THEN <<"1">> ELSE <<"3", "0", "0">>],
      [x \in {kA, kQ} |-> IF x = kA THEN <<>> ELSE <<"v">>] }

ParseEnvs ==
    { EmptyMap,
      MapOf(kQ, <<"w">>),
      MapOf(kQ, <<>>),
      [x \in {kP, kB} |-> IF x = kP THEN <<"r", "a", "w">> ELSE <<"1">>] }

\* Arguments of processValue.
ValueChars == {DQ, SQ, BS, "n", "a"}

\* Arguments of setValue.
ConvChars == {"0", "1", "3", "-", "h", ","}

ConvKinds ==
    { [kind |-> "string", elem |-> ""], [kind |-> "int", elem |-> ""],
      [kind |-> "int8", elem |-> ""], [kind |-> "int16", elem |-> ""],
      [kind |-> "int32", elem |-> ""], [kind |-> "int64", elem |-> ""],
      [kind |-> "duration", elem |-> ""], [kind |-> "bool", elem |-> ""],
      [kind |-> "slice", elem |-> "int8"], [kind |-> "slice", elem |-> "string"],
      [kind |-> "map", elem |-> ""], [kind |-> "float64", elem |-> ""] }

ConvTexts ==
    SeqsUpTo(ConvChars, MaxDigits)
    \cup { <<"9","9","9","9","9","9","9","9","9","9","9","9","9","9","9","9","9","9","9","9">>,
           <<"t","r","u","e">>,
           <<"{", DQ, "k", DQ, ":", DQ, "v", DQ, "}">>,
           <<"{", DQ, "k", DQ, "}">> }

(***************************************************************************)
(* Specifications.                                                         *)
(***************************************************************************)
IdleLoad ==
    /\ fileVars = EmptyMap
    /\ buffer = <<>>
    /\ multiline = FALSE
    /\ nLines = 0
    /\ run = <<>>
    /\ last = NoLast
    /\ loadRet = NoRet

IdleFill ==
    /\ pathIdx = 0
    /\ envVars = EmptyMap
    /\ loaded = <<>>
    /\ err = NoErr

IdleParse ==
    /\ cfg = cfg0
    /\ stack = <<>>
    /\ calls = <<>>
    /\ res = NoRes

IdleCall ==
    /\ arg = <<>>
    /\ ret = <<>>

\* fillSpecification(instance, paths...) on a ConfigType record.
Init ==
    /\ pc = "open"
    /\ procEnv \in LoadEnvs
    /\ nPaths \in 0..MaxPaths
    /\ cfgType = ConfigType
    /\ cfg0 = PresetRecord(ConfigType)
    /\ IdleFill /\ IdleLoad /\ IdleParse /\ IdleCall

Next ==
    \/ OpenFile
    \/ OpenFail
    \/ \E raw \in LoadLines : ScanLine(raw)
    \/ ScanEOF
    \/ ScanErr
    \/ CallParseEnv
    \/ ParseScalarField
    \/ ParseStructField
    \/ ParseStructReturn
    \/ ParseEnvReturn

Spec == Init /\ [][Next]_vars

\* One loadEnv call, on a file of up to MaxLines lines.
InitLoadEnv ==
    /\ pc = "open"
    /\ procEnv = EmptyMap
    /\ nPaths = 1
    /\ cfgType = <<>>
    /\ cfg0 = <<>>
    /\ IdleFill /\ IdleLoad /\ IdleParse /\ IdleCall

NextLoadEnv ==
    \/ OpenFile
    \/ OpenFail
    \/ \E raw \in ScanLines : ScanLine(raw)
    \/ ScanEOF
    \/ ScanErr

SpecLoadEnv == InitLoadEnv /\ [][NextLoadEnv]_vars

\* One parseEnv call, on a record of any of the record types.
InitParseEnv ==
    /\ pc = "parse"
    /\ procEnv \in ParseEnvs
    /\ nPaths = 0
    /\ envVars \in ParseMaps
    /\ pathIdx = 0
    /\ loaded = <<>>
    /\ err = NoErr
    /\ cfgType \in RecordTypes
    /\ cfg0 \in {ZeroRecord(cfgType), PresetRecord(cfgType)}
    /\ cfg = cfg0
    /\ stack = <<[path |-> <<>>, i |-> 1]>>
    /\ calls = <<>>
    /\ res = NoRes
    /\ IdleLoad /\ IdleCall

NextParseEnv ==
    \/ ParseScalarField
    \/ ParseStructField
    \/ ParseStructReturn
    \/ ParseEnvReturn

SpecParseEnv == InitParseEnv /\ [][NextParseEnv]_vars

\* processValue on every text of up to MaxValueLen characters.
InitProcessValue ==
    /\ pc = "call"
    /\ procEnv = EmptyMap
    /\ nPaths = 0
    /\ cfgType = <<>>
    /\ cfg0 = <<>>
    /\ arg \in SeqsUpTo(ValueChars, MaxValueLen)
    /\ ret = <<>>
    /\ IdleFill /\ IdleLoad /\ IdleParse

SpecProcessValue == InitProcessValue /\ [][ProcessValueCall]_vars

\* setValue on a zero field of every kind.
InitSetValue ==
    /\ pc = "call"
    /\ procEnv = EmptyMap
    /\ nPaths = 0
    /\ cfgType = <<>>
    /\ cfg0 = <<>>
    /\ \E k \in ConvKinds, v \in ConvTexts \ {<<>>} :
          arg = [kind |-> k.kind, elem |-> k.elem, cur |-> ZeroScalar(k.kind),
                 value |-> v]
    /\ ret = <<>>
    /\ IdleFill /\ IdleLoad /\ IdleParse

SpecSetValue == InitSetValue /\ [][SetValueCall]_vars

(***************************************************************************)
(* Properties.                                                             *)
(***************************************************************************)
RECURSIVE JoinRun(_)
JoinRun(lines) ==
    IF lines = <<>> THEN <<>>
    ELSE TrimSuffix(lines[1], <<BS>>) \o JoinRun(Tail(lines))

Skipped == {"blank", "comment"}

\* C1: a run of consecutive lines that end in a backslash, followed by the
\* next line that does not, forms one logical line: the run's lines without
\* their backslash, then that line; the buffer is then empty and the
\* multiline flag off.
C1_RunFormsOneLogicalLine ==
    (last.op = "scan" /\ ~HasSuffix(last.line, <<BS>>) /\ last.runBefore # <<>>)
    => /\ last.outcome \notin Skipped
       /\ last.logical = JoinRun(last.runBefore) \o last.line
       /\ buffer = <<>>
       /\ ~multiline

\* C10: a line is skipped as blank or comment only when no continuation is
\* pending, and buffered text is joined only with the physical line that
\* directly follows the continuation line.
C10_SkipOnlyWhenNotPending ==
    last.op = "scan"
    => /\ last.outcome \in Skipped => ~last.pending
       /\ (last.pending /\ last.outcome \notin Skipped \cup {"continued"})
          => /\ last.hasPrev
             /\ HasSuffix(last.prev, <<BS>>)
             /\ last.logical = last.bufBefore \o last.line

\* C2: a value stored by loadEnv is the processed value with each ${NAME}
\* replaced by NAME's value from the keys defined so far in this load (the
\* earlier files and the earlier lines of this file), else from the process
\* environment, else left as it is.
C2_ExpandsFromWholeLoad ==
    (last.op = "scan" /\ last.outcome = "set")
    => fileVars[last.key] =
          expandEnvVars(last.pv, MergeVars(envVars, last.before), procEnv)

\* The last path that defines key k.
LastDefining(k) ==
    CHOOSE i \in 1..Len(loaded) :
        /\ k \in DOMAIN loaded[i]
        /\ \A j \in (i + 1)..Len(loaded) : k \notin DOMAIN loaded[j]

\* C4: the mapping handed to parseEnv holds exactly the keys some path
\* defines, each with the value of the last path that defines it.
C4_LastPathWins ==
    pc \in {"parse", "done"}
    => /\ Len(loaded) = nPaths
       /\ DOMAIN envVars = UNION {DOMAIN loaded[i] : i \in 1..Len(loaded)}
       /\ \A k \in DOMAIN envVars : envVars[k] = loaded[LastDefining(k)][k]

C4_Witness ==
    /\ pc = "parse"
    /\ Len(loaded) = 2
    /\ kA \in DOMAIN loaded[1] /\ kA \in DOMAIN loaded[2]
    /\ loaded[1][kA] # loaded[2][kA]
    /\ kB \in DOMAIN loaded[1] /\ kB \notin DOMAIN loaded[2]
    /\ envVars[kA] = loaded[2][kA]
    /\ envVars[kB] = loaded[1][kB]

\* The last iteration formed a logical line with "=" whose key is not a
\* valid name.
BadKeyLine ==
    /\ last.op = "scan"
    /\ last.outcome \notin Skipped \cup {"continued"}
    /\ Len(SplitN2(last.logical)) = 2
    /\ ~validEnvVarRegex(TrimSpace(SplitN2(last.logical)[1]))

\* C6: a logical line with an invalid key fails the whole load: loadEnv
\* returns no mapping, fillSpecification returns the error, parseEnv is
\* never started and the record is as the caller passed it.
C6_InvalidKeyFailsLoad ==
    BadKeyLine
    => /\ pc = "failed"
       /\ err.kind = "invalid_name"
       /\ err.var = TrimSpace(SplitN2(last.logical)[1])
       /\ loadRet.nil /\ loadRet.vars = EmptyMap /\ loadRet.err = err
       /\ stack = <<>> /\ res = NoRes /\ calls = <<>>
       /\ cfg = cfg0

C6_Witness ==
    /\ BadKeyLine
    /\ pc = "failed"
    /\ last.before # EmptyMap
    /\ pathIdx = 1
    /\ envVars # EmptyMap
    /\ cfg = cfg0

\* C7: processValue never faults; it strips the outer pair of a value that,
\* after escape substitution, is wrapped in a matching pair of quotes, and
\* returns every other value as the substitution left it.
C7_ProcessValueStripsPairOnly ==
    pc # "call"
    => /\ pc = "ret"
       /\ ~ret.fault
       /\ LET v == Replacer(arg)
          IN  ret.val = IF Len(v) >= 2 /\ v[1] \in {DQ, SQ} /\ v[Len(v)] = v[1]
                        THEN SubSeq(v, 2, Len(v) - 1)
                        ELSE v

InRange(n, w) ==
    w >= 32 \/ (0 - 2^(w - 1) <= n /\ n <= 2^(w - 1) - 1)

\* C9: for an integer field of width w, a decimal integer outside the range
\* of w is a conversion failure, and a successful setValue leaves the field
\* holding the integer the text denotes.
C9_IntegerOfFieldWidth ==
    (pc = "ret" /\ arg.kind \in IntKinds)
    => LET neg == arg.value[1] = "-"
           digits == IF arg.value[1] \in {"+", "-"} THEN Tail(arg.value) ELSE arg.value
           w == Width(arg.kind)
           big == Len(StripZeros(digits)) > 9
           n == IF neg THEN 0 - Decimal(digits) ELSE Decimal(digits)
           outside == IF big THEN w < 64 \/ ~FitsInt64(digits, neg)
                      ELSE ~InRange(n, w)
       IN  AllDigits(digits)
           => /\ outside => err # NoErr
              /\ (err = NoErr /\ ~big) => ret.field = n

\* The last iteration of parseEnv resolved a scalar field that has a source
\* name.
ResolvedScalar == res.op = "scalar" /\ res.env # <<>>

MissingRequired ==
    /\ res.err = MkErr("required_missing", res.env, "", "")
    /\ pc = "failed"
    /\ err = res.err
    /\ GetAt(cfg, res.path) = GetAt(cfg0, res.path)

UsesDefault ==
    /\ res.err.kind # "required_missing"
    /\ res.val = res.def
    /\ (res.kind = "string" /\ res.def # <<>>) => GetAt(cfg, res.path) = res.def
    /\ res.def = <<>> => GetAt(cfg, res.path) = GetAt(cfg0, res.path)

\* C3 as stated: the mapping's value when the name is a key of the mapping,
\* else the process environment's value when the variable is set there, else
\* an error naming the variable when the field is required, else the default.
C3_ResolutionOrderSet ==
    ResolvedScalar
    => IF res.env \in DOMAIN envVars
       THEN res.val = envVars[res.env] /\ res.err.kind # "required_missing"
       ELSE IF res.env \in DOMAIN procEnv
       THEN res.val = procEnv[res.env] /\ res.err.kind # "required_missing"
       ELSE IF res.req THEN MissingRequired
       ELSE UsesDefault

\* C3 amended: the process environment's value is used when it is not
\* empty; a variable set to the empty string counts as not set.
C3_ResolutionOrderNonEmpty ==
    ResolvedScalar
    => IF res.env \in DOMAIN envVars
       THEN res.val = envVars[res.env] /\ res.err.kind # "required_missing"
       ELSE IF res.env \in DOMAIN procEnv /\ procEnv[res.env] # <<>>
       THEN res.val = procEnv[res.env] /\ res.err.kind # "required_missing"
       ELSE IF res.req THEN MissingRequired
       ELSE UsesDefault

\* A variable set to the empty string in the process environment: the
\* default is used.
C3_Witness ==
    /\ ResolvedScalar
    /\ res.env \notin DOMAIN envVars
    /\ res.env \in DOMAIN procEnv /\ procEnv[res.env] = <<>>
    /\ ~res.req
    /\ res.def # <<>>
    /\ GetAt(cfg, res.path) = res.def
    /\ GetAt(cfg0, res.path) # res.def

\* C5: ParseEnv is called only after the recursion into the record went
\* through all its fields without error, and only with a non-empty value.
C5_CustomParserOnlyNonEmpty ==
    \A c \in 1..Len(calls) :
        /\ calls[c].fieldsDone = Len(TypeAt(cfgType, calls[c].path))
        /\ calls[c].val # <<>>

Same(path) == GetAt(cfg, path) = GetAt(cfg0, path)

\* Field j of the record at path was processed without error: it holds the
\* converted value when a non-empty value was resolved, else what it held.
Populated(path, j) ==
    LET fd == TypeAt(cfgType, path)[j]
        r == getValueFromEnvOrFile(fd, envVars, procEnv)
        sv == setValue(fd.kind, fd.elem, r.val)
    IN  /\ r.err = NoErr
        /\ IF r.val = <<>> THEN Same(Append(path, j))
           ELSE sv.cause = "" /\ GetAt(cfg, Append(path, j)) = sv.val

FailedAt == stack[1].i

\* C8 as stated: on an error at field i the scalar fields before i hold
\* their assigned values, field i and every field after i hold what they
\* held before the call, and the error is field i's.
C8_FailingFieldUntouched ==
    (pc = "failed" /\ stack # <<>>)
    => /\ \A j \in 1..(FailedAt - 1) : cfgType[j].kind # "struct" => Populated(<<>>, j)
       /\ \A j \in FailedAt..Len(cfgType) : Same(<<j>>)
       /\ err = res.err /\ err # NoErr /\ res.path[1] = FailedAt

\* C8 amended: in every record on the way to the failing field, the scalar
\* fields before the failing position hold their assigned values and the
\* fields after it hold what they held before the call; the failing field
\* itself is unchanged when it is a scalar (a nested record that fails is
\* left partly populated); the error is the failing field's.
C8_FieldsAfterUntouched ==
    (pc = "failed" /\ stack # <<>>)
    => /\ \A k \in 1..Len(stack) :
             LET f == stack[k]
                 fields == TypeAt(cfgType, f.path)
             IN  /\ \A j \in 1..(f.i - 1) :
                        fields[j].kind # "struct" => Populated(f.path, j)
                 /\ \A j \in (f.i + 1)..Len(fields) : Same(Append(f.path, j))
                 /\ fields[f.i].kind # "struct" => Same(Append(f.path, f.i))
       /\ err = res.err /\ err # NoErr
       /\ res.path = Append(Top.path, Top.i)
       /\ res.path[1] = FailedAt

\* The second field is a nested record whose second field fails after its
\* first was assigned.
C8_Witness ==
    /\ pc = "failed"
    /\ Len(stack) = 2
    /\ stack[1].i = 2 /\ stack[2].i = 2
    /\ ~Same(<<1>>)
    /\ ~Same(<<2, 1>>)
    /\ Same(<<2, 2>>)

====
